---- MODULE Spec2Model ----
(***************************************************************************)
(* Model of analyze.py (endlessh journal analyzer): the journal-line       *)
(* parser ConnectionEvent.from_journal, the ACCEPT/CLOSE correlation loop  *)
(* of main(), and the grouping / ordering / rendering of the report.       *)
(*                                                                         *)
(* Representation.                                                         *)
(*  - A journal message is the list msg.split(" ") yields; every field is  *)
(*    the list field.split("=") yields, so "host=::1" is <<"host","::1">>   *)
(*    and a bare word "x" is <<"x">>.                                       *)
(*  - Python's None is <<>> and a present value v is <<v>>.                 *)
(*  - A float duration is an integer number of half seconds (0.5 -> 1,      *)
(*    1.5 -> 3): such values and their sums are exact in binary floating    *)
(*    point, and int() truncation is visible on them.                       *)
(*  - Connection objects live in the heap `conns` (object id -> events);    *)
(*    open_connections and closed_connections hold object ids, as the       *)
(*    Python containers hold references.                                    *)
(*  - dicts keep insertion order, so they are sequences of entries.         *)
(***************************************************************************)
EXTENDS Integers, Sequences, FiniteSets, TLC

VARIABLES
    pc,                  \* position in main(): "parse_arguments" (line 197), "resolve_time_range"
                         \* (line 199), "loop" (line 206), "render" (line 241), "done", "aborted",
                         \* "exited" (sys.exit); in yield_journal_messages: "seek", "while", "returned";
                         \* in human_readable_seconds: "called", "returned"
    error,               \* the uncaught exception that ended the run, "" while there is none
    geo_ip,              \* args.geo_ip
    nread,               \* number of journal messages yielded so far
    msg,                 \* loop variable msg (line 206)
    event,               \* loop variable event (line 207): None or an event
    conns,               \* heap of Connection objects: conns[id] is the events list
    open_connections,    \* dict (ip, fd) -> Connection, as a list of entries
    closed_connections,  \* list of Connection references
    grouped_connections, \* dict ip -> list of Connection references (line 233)
    order,               \* the list iterated by line 241
    gi,                  \* number of groups of `order` already rendered
    stdout,              \* lines printed to standard output
    stderr,              \* lines printed to standard error
    history,             \* the events from_journal has returned so far, in order
    args,                \* the command line, then the Namespace parse_arguments returns
    time_range,          \* (start_time, end_time) of line 199, None before
    reader,              \* the journal.Reader j of yield_journal_messages: entries and cursor
    yielded,             \* the messages yield_journal_messages has yielded, in order
    hrs_arg,             \* argument `seconds` of a call of human_readable_seconds
    rendered             \* what that call returns, None before it returns

\* The state outside the correlation loop and the report.
aux_vars == <<args, time_range, reader, yielded, hrs_arg, rendered>>

vars == <<pc, error, geo_ip, nread, msg, event, conns, open_connections,
          closed_connections, grouped_connections, order, gi, stdout, stderr, history,
          args, time_range, reader, yielded, hrs_arg, rendered>>

\* Bound on the number of journal messages the log source yields.
MaxLines == 4
\* Bound on the number of closed connections an aggregation run starts from.
MaxClosed == 3
MaxSeconds == 7300
MaxEntries == 3
MaxTime == 2

None == <<>>
Some(v) == <<v>>

---------------------------------------------------------------------------
\* Input vocabulary: the journal messages the log source may yield.

TimeOk == <<"2025-08-01T10:00:00.000000Z">>
TimeBad == <<"Aug-01">>
HostStrings == {"1.2.3.4", "::1"}
FdStrings == {"4", "5"}
DurStrings == {"0.5", "1.5"}

\* The lines endlessh writes: "<time> ACCEPT host=<ip> port=<p> fd=<fd> n=<i>/<max>"
\* and "<time> CLOSE host=<ip> port=<p> fd=<fd> time=<seconds> bytes=<n>".
AcceptLine(host, fd) ==
    <<TimeOk, <<"ACCEPT">>, <<"host", host>>, <<"port", "22">>, <<"fd", fd>>, <<"n", "1/4096">>>>
CloseLine(host, fd, dur) ==
    <<TimeOk, <<"CLOSE">>, <<"host", host>>, <<"port", "22">>, <<"fd", fd>>, <<"time", dur>>, <<"bytes", "0">>>>

\* "0::1" is another spelling of the address "::1".
WellFormedLines ==
    {AcceptLine(h, f) : h \in HostStrings, f \in FdStrings}
    \cup {CloseLine(h, f, d) : h \in HostStrings, f \in FdStrings, d \in DurStrings}
    \cup {AcceptLine("0::1", "4"), CloseLine("0::1", "4", "0.5")}

\* Lines that are not events, that carry another keyword, or that carry a
\* field that does not parse.
OddLines ==
    { <<TimeOk, <<"Port">>, <<"2222">>>>,
      <<TimeOk, <<"ACCEPT">>, <<"host", "1.2.3.4">>, <<"port", "22">>, <<"fd", "4">>>>,
      <<TimeOk, <<"ACCEPT">>, <<"peer", "1.2.3.4">>, <<"port", "22">>, <<"fd", "4">>, <<"x">>>>,
      <<TimeOk, <<"CLOSE">>, <<"hostname">>, <<"port", "22">>, <<"fd", "4">>, <<"time", "0.5">>>>,
      <<TimeOk, <<"PING">>, <<"host", "1.2.3.4">>, <<"port", "22">>, <<"fd", "4">>, <<"time", "0.5">>>>,
      <<TimeOk, <<"PING">>, <<"host", "::1">>, <<"port", "22">>, <<"fd", "5">>, <<"x">>>>,
      <<TimeOk, <<"ACCEPT">>, <<"host", "1.2.3">>, <<"port", "22">>, <<"fd", "4">>, <<"x">>>>,
      <<TimeOk, <<"ACCEPT">>, <<"host", "1.2.3.4">>, <<"port", "22">>, <<"fd", "four">>, <<"x">>>>,
      <<TimeOk, <<"ACCEPT">>, <<"host", "1.2.3.4">>, <<"port", "22">>, <<"fd">>, <<"x">>>>,
      <<TimeOk, <<"CLOSE">>, <<"host", "1.2.3.4">>, <<"port", "22">>, <<"fd", "4">>, <<"time", "soon">>>>,
      <<TimeOk, <<"CLOSE">>, <<"host", "1.2.3.4">>, <<"port", "22">>, <<"fd", "4">>, <<"time">>>>,
      <<TimeBad, <<"PING">>, <<"host", "::1">>, <<"port", "22">>, <<"fd", "5">>, <<"x">>>>,
      <<TimeBad, <<"ACCEPT">>, <<"host", "::1">>, <<"port", "22">>, <<"fd", "5">>, <<"x">>>> }

Lines == WellFormedLines \cup OddLines

---------------------------------------------------------------------------
\* Conversions used by from_journal. Each returns None when Python raises.

\* ipaddress.ip_address(s): the address value, written in its canonical form.
ip_address(s) ==
    CASE s = "1.2.3.4" -> Some("1.2.3.4")
      [] s = "5.6.7.8" -> Some("5.6.7.8")
      [] s = "::1"     -> Some("::1")
      [] s = "0::1"    -> Some("::1")
      [] OTHER         -> None

\* int(s)
int_(s) ==
    CASE s = "4" -> Some(4)
      [] s = "5" -> Some(5)
      [] OTHER   -> None

\* float(s), in half seconds
float_(s) ==
    CASE s = "0.5" -> Some(1)
      [] s = "1.5" -> Some(3)
      [] s = "2.0" -> Some(4)
      [] OTHER     -> None

\* datetime.strptime(s, "%Y-%m-%dT%H:%M:%S.%fZ").replace(tzinfo=utc), in seconds of the day
strptime(s) ==
    CASE s = "2025-08-01T10:00:00.000000Z" -> Some(36000)
      [] OTHER -> None

\* field.startswith("host="), on the "="-split form of the field
startswith_host(field) == Len(field) >= 2 /\ field[1] = "host"

ConnectionEvent(t, ty, ip, fd, duration) ==
    [time |-> t, type |-> ty, ip |-> ip, fd |-> fd, duration |-> duration]

\* Variant of conn that identifies a connection by its address alone.
conn_by_ip(ev) == <<ev.ip, 0>>

\* ConnectionEvent.conn
conn(ev) == <<ev.ip, ev.fd>>

\* The outcome of a call: the value returned (None or an event), the lines it
\* printed, and the exception it raised ("" when it returned).
Outcome(ret, out, raised) == [ret |-> ret, out |-> out, raised |-> raised]

UnmatchedType(kw) == [line |-> "Unmatched connection type", what |-> kw]

\* Variant of from_journal whose length test is len(split) < 5.
from_journal_min5(m) ==
    LET split == m IN
    IF Len(split) < 5 THEN Outcome(None, <<>>, "")
    ELSE IF ~startswith_host(split[3]) THEN Outcome(None, <<>>, "")
    ELSE LET ip == ip_address(split[3][2]) IN
    IF ip = None THEN Outcome(None, <<>>, "ValueError")
    ELSE IF Len(split[5]) < 2 THEN Outcome(None, <<>>, "IndexError")
    ELSE LET fd == int_(split[5][2]) IN
    IF fd = None THEN Outcome(None, <<>>, "ValueError")
    ELSE LET kw == split[2][1]
             ty == CASE kw = "ACCEPT" -> "ACCEPT" [] kw = "CLOSE" -> "CLOSE" [] OTHER -> "UNKNOWN"
             out == IF ty = "UNKNOWN" THEN <<UnmatchedType(kw)>> ELSE <<>>
             t == strptime(split[1][1])
         IN
         IF ty = "CLOSE" /\ Len(split[6]) < 2 THEN Outcome(None, out, "IndexError")
         ELSE LET duration == IF ty = "CLOSE" THEN float_(split[6][2]) ELSE None IN
         IF ty = "CLOSE" /\ duration = None THEN Outcome(None, out, "ValueError")
         ELSE IF t = None THEN Outcome(None, out, "ValueError")
         ELSE Outcome(Some(ConnectionEvent(t[1], ty, ip[1], fd[1], duration)), out, "")

\* ConnectionEvent.from_journal. split[i] of the code is split[i + 1] here.
from_journal(m) ==
    LET split == m IN
    IF Len(split) < 6 THEN Outcome(None, <<>>, "")
    ELSE IF ~startswith_host(split[3]) THEN Outcome(None, <<>>, "")
    ELSE LET ip == ip_address(split[3][2]) IN
    IF ip = None THEN Outcome(None, <<>>, "ValueError")
    ELSE IF Len(split[5]) < 2 THEN Outcome(None, <<>>, "IndexError")
    ELSE LET fd == int_(split[5][2]) IN
    IF fd = None THEN Outcome(None, <<>>, "ValueError")
    ELSE LET kw == split[2][1]
             ty == CASE kw = "ACCEPT" -> "ACCEPT" [] kw = "CLOSE" -> "CLOSE" [] OTHER -> "UNKNOWN"
             out == IF ty = "UNKNOWN" THEN <<UnmatchedType(kw)>> ELSE <<>>
             t == strptime(split[1][1])
         IN
         IF ty = "CLOSE" /\ Len(split[6]) < 2 THEN Outcome(None, out, "IndexError")
         ELSE LET duration == IF ty = "CLOSE" THEN float_(split[6][2]) ELSE None IN
         IF ty = "CLOSE" /\ duration = None THEN Outcome(None, out, "ValueError")
         ELSE IF t = None THEN Outcome(None, out, "ValueError")
         ELSE Outcome(Some(ConnectionEvent(t[1], ty, ip[1], fd[1], duration)), out, "")

---------------------------------------------------------------------------
\* Containers.

\* dict with insertion order: a list of entries [key, val].
dict_has(d, k) == \E i \in 1..Len(d) : d[i].key = k
dict_index(d, k) == CHOOSE i \in 1..Len(d) : d[i].key = k
dict_get(d, k) == d[dict_index(d, k)].val
dict_set(d, k, v) ==
    IF dict_has(d, k) THEN [d EXCEPT ![dict_index(d, k)].val = v]
    ELSE Append(d, [key |-> k, val |-> v])
dict_del(d, k) ==
    LET i == dict_index(d, k) IN SubSeq(d, 1, i - 1) \o SubSeq(d, i + 1, Len(d))
dict_keys(d) == [i \in 1..Len(d) |-> d[i].key]
dict_values(d) == [i \in 1..Len(d) |-> d[i].val]

Last(s) == s[Len(s)]

---------------------------------------------------------------------------
\* Connection

\* Connection.add_event on the events list `events`: the new list, or the
\* ValueError it raises.
add_event(events, ev) ==
    IF events = <<>> THEN [events |-> <<ev>>, raised |-> ""]
    ELSE IF Last(events).ip # ev.ip
    THEN [events |-> events, raised |-> "ValueError: Invalid IP for connection!"]
    ELSE IF Last(events).fd # ev.fd
    THEN [events |-> events, raised |-> "ValueError: Invalid fd for connection!"]
    ELSE [events |-> Append(events, ev), raised |-> ""]

\* Connection.get_ip / Connection.get_duration on an events list
get_ip(events) == events[1].ip

\* Variant of get_duration that reads the first event instead of the last.
get_duration_first(events) == events[1].duration

get_duration(events) == Last(events).duration

---------------------------------------------------------------------------
\* The body of the main loop for one parsed event (lines 209-222): the heap,
\* the open mapping, the closed list and standard error after it, and the
\* exception that escaped it ("" when the loop goes on).

Loop(cs, oc, cc, err, raised) ==
    [conns |-> cs, open |-> oc, closed |-> cc, stderr |-> err, raised |-> raised]

Leftover(ev) == [line |-> "Closing leftover connection", what |-> ev]

\* Variant of on_accept that creates a Connection for every ACCEPT.
on_accept_always_new(cs, oc, cc, err, ev) ==
    Loop(Append(cs, <<ev>>), dict_set(oc, conn(ev), Len(cs) + 1), cc, err, "")

\* lines 209-214
on_accept(cs, oc, cc, err, ev) ==
    IF dict_has(oc, conn(ev))
    THEN LET id == dict_get(oc, conn(ev))
             r == add_event(cs[id], ev)
         IN Loop([cs EXCEPT ![id] = r.events], oc, cc, err, r.raised)
    ELSE Loop(Append(cs, <<ev>>), dict_set(oc, conn(ev), Len(cs) + 1), cc, err, "")

\* Variant of on_close without line 222: the key stays in open_connections.
on_close_keep_key(cs, oc, cc, err, ev) ==
    IF ~dict_has(oc, conn(ev)) THEN Loop(cs, oc, cc, err, "KeyError")
    ELSE LET id == dict_get(oc, conn(ev))
             r == add_event(cs[id], ev)
         IN IF r.raised # "" THEN Loop(cs, oc, cc, err, r.raised)
            ELSE Loop([cs EXCEPT ![id] = r.events], oc, Append(cc, id), err, "")

\* Variant of on_close without line 220: the CLOSE event is not added.
on_close_no_add(cs, oc, cc, err, ev) ==
    IF ~dict_has(oc, conn(ev)) THEN Loop(cs, oc, cc, err, "KeyError")
    ELSE Loop(cs, dict_del(oc, conn(ev)), Append(cc, dict_get(oc, conn(ev))), err, "")

\* lines 216-222. open_connections[key] raises KeyError for a missing key; an
\* object of the dataclass Connection is always true, so line 218 is reached
\* by no lookup that returned.
on_close(cs, oc, cc, err, ev) ==
    IF ~dict_has(oc, conn(ev)) THEN Loop(cs, oc, cc, err, "KeyError")
    ELSE LET id == dict_get(oc, conn(ev))
             r == add_event(cs[id], ev)
         IN IF r.raised # "" THEN Loop(cs, oc, cc, err, r.raised)
            ELSE Loop([cs EXCEPT ![id] = r.events], dict_del(oc, conn(ev)), Append(cc, id), err, "")

\* Variant of correlate that takes every event that is not a CLOSE for an
\* ACCEPT.
correlate_else_accept(cs, oc, cc, err, ev) ==
    IF ev.type = "CLOSE" THEN on_close(cs, oc, cc, err, ev)
    ELSE on_accept(cs, oc, cc, err, ev)

\* lines 209-222
correlate(cs, oc, cc, err, ev) ==
    LET a == IF ev.type = "ACCEPT" THEN on_accept(cs, oc, cc, err, ev)
             ELSE Loop(cs, oc, cc, err, "")
    IN IF a.raised # "" THEN a
       ELSE IF ev.type = "CLOSE" THEN on_close(a.conns, a.open, a.closed, a.stderr, ev)
       ELSE a

---------------------------------------------------------------------------
\* The instants of the model are seconds counted from the midnight that
\* starts yesterday; a day has 86400 of them.
\* get_yesterday_timestamps: int() of yesterday's 00:00:00 and 23:59:59.999999
get_yesterday_timestamps == <<0, 86399>>

\* get_today_timestamps: int() of today's 00:00:00 and 23:59:59.999999
get_today_timestamps == <<86400, 172799>>

\* The command line "--today".
TodayArgs == [today |-> TRUE, yesterday |-> FALSE, start |-> None, end |-> None]

\* No journal.Reader exists: yield_journal_messages has not been entered.
NoReader == [entries |-> <<>>, next |-> 1]

Init ==
    /\ pc = "loop"
    /\ error = ""
    /\ geo_ip \in BOOLEAN
    /\ nread = 0
    /\ msg = <<>>
    /\ event = None
    /\ conns = <<>>
    /\ open_connections = <<>>
    /\ closed_connections = <<>>
    /\ grouped_connections = <<>>
    /\ order = <<>>
    /\ gi = 0
    /\ stdout = <<>>
    /\ stderr = <<>>
    /\ history = <<>>
    /\ args = TodayArgs
    /\ time_range = Some(get_today_timestamps)
    /\ reader = NoReader
    /\ yielded = <<>>
    /\ hrs_arg = 0
    /\ rendered = None

report_vars == <<grouped_connections, order, gi>>

\* Variant of Iterate that catches what from_journal raises and goes on to
\* the next message.
Iterate_skip_errors(m) ==
    LET p == from_journal(m) IN
    /\ nread' = nread + 1
    /\ msg' = m
    /\ stdout' = stdout \o p.out
    /\ history' = IF p.raised = "" /\ p.ret # None THEN Append(history, p.ret[1]) ELSE history
    /\ IF p.raised # "" \/ p.ret = None
       THEN /\ event' = None
            /\ UNCHANGED <<pc, error, conns, open_connections, closed_connections, stderr>>
       ELSE LET c == correlate(conns, open_connections, closed_connections, stderr, p.ret[1]) IN
            /\ event' = p.ret
            /\ conns' = c.conns
            /\ open_connections' = c.open
            /\ closed_connections' = c.closed
            /\ stderr' = c.stderr
            /\ error' = c.raised
            /\ pc' = IF c.raised # "" THEN "aborted" ELSE pc
    /\ UNCHANGED <<geo_ip, report_vars>>
    /\ UNCHANGED aux_vars

\* Variant of Iterate that prints the closed-connection count each time a
\* connection closes.
Iterate_streaming(m) ==
    LET p == from_journal(m) IN
    /\ nread' = nread + 1
    /\ msg' = m
    /\ history' = IF p.raised = "" /\ p.ret # None THEN Append(history, p.ret[1]) ELSE history
    /\ IF p.raised # ""
       THEN /\ pc' = "aborted"
            /\ error' = p.raised
            /\ stdout' = stdout \o p.out
            /\ UNCHANGED <<event, conns, open_connections, closed_connections, stderr>>
       ELSE IF p.ret = None
       THEN /\ event' = None
            /\ stdout' = stdout \o p.out
            /\ UNCHANGED <<pc, error, conns, open_connections, closed_connections, stderr>>
       ELSE LET c == correlate(conns, open_connections, closed_connections, stderr, p.ret[1]) IN
            /\ event' = p.ret
            /\ conns' = c.conns
            /\ open_connections' = c.open
            /\ closed_connections' = c.closed
            /\ stderr' = c.stderr
            /\ error' = c.raised
            /\ pc' = IF c.raised # "" THEN "aborted" ELSE pc
            /\ stdout' = stdout \o p.out \o
                    (IF Len(c.closed) > Len(closed_connections)
                     THEN <<[line |-> "Closed connections:", what |-> Len(c.closed)]>> ELSE <<>>)
    /\ UNCHANGED <<geo_ip, report_vars>>
    /\ UNCHANGED aux_vars

\* One iteration of the loop of line 206 on the message m (lines 206-222).
Iterate(m) ==
    LET p == from_journal(m) IN
    /\ nread' = nread + 1
    /\ msg' = m
    /\ stdout' = stdout \o p.out
    /\ history' = IF p.raised = "" /\ p.ret # None THEN Append(history, p.ret[1]) ELSE history
    /\ IF p.raised # ""
       THEN /\ pc' = "aborted"
            /\ error' = p.raised
            /\ UNCHANGED <<event, conns, open_connections, closed_connections, stderr>>
       ELSE IF p.ret = None
       THEN /\ event' = None
            /\ UNCHANGED <<pc, error, conns, open_connections, closed_connections, stderr>>
       ELSE LET c == correlate(conns, open_connections, closed_connections, stderr, p.ret[1]) IN
            /\ event' = p.ret
            /\ conns' = c.conns
            /\ open_connections' = c.open
            /\ closed_connections' = c.closed
            /\ stderr' = c.stderr
            /\ error' = c.raised
            /\ pc' = IF c.raised # "" THEN "aborted" ELSE pc
    /\ UNCHANGED <<geo_ip, report_vars>>
    /\ UNCHANGED aux_vars

\* The log source yields one more message and the loop body runs on it.
ProcessLine ==
    /\ pc = "loop"
    /\ nread < MaxLines
    /\ \E m \in Lines : Iterate(m)

---------------------------------------------------------------------------
\* The report (lines 224-255).

Printed(line, what) == [line |-> line, what |-> what]

\* lines 224-231: the open-connections section and the closed-connection count
header_lines(oc, cc) ==
    (IF oc # <<>> THEN <<Printed("", ""), Printed("Currently open connections:", "")>> ELSE <<>>)
    \o [i \in 1..Len(oc) |-> Printed("event=", oc[i].key)]
    \o <<Printed("", ""), Printed("Closed connections:", Len(cc))>>

\* Variant of group_by_ip that groups every Connection ever created, open
\* ones included, instead of the closed ones.
RECURSIVE group_all_by_ip(_, _)
group_all_by_ip(cs, cc) ==
    IF cs = <<>> THEN <<>>
    ELSE LET g == group_all_by_ip(SubSeq(cs, 1, Len(cs) - 1), cc)
             c == Len(cs)
             ip == get_ip(cs[c])
         IN IF dict_has(g, ip) THEN dict_set(g, ip, Append(dict_get(g, ip), c))
            ELSE dict_set(g, ip, <<c>>)

\* lines 233-238: grouped_connections after the loop over the list cc of
\* Connection references, cs being the heap
RECURSIVE group_by_ip(_, _)
group_by_ip(cs, cc) ==
    IF cc = <<>> THEN <<>>
    ELSE LET g == group_by_ip(cs, SubSeq(cc, 1, Len(cc) - 1))
             c == Last(cc)
             ip == get_ip(cs[c])
         IN IF dict_has(g, ip) THEN dict_set(g, ip, Append(dict_get(g, ip), c))
            ELSE dict_set(g, ip, <<c>>)

\* sorted(lists, key=len): ascending by length, equal lengths keep their order
RECURSIVE sorted_by_len(_)
sorted_by_len(lists) ==
    IF lists = <<>> THEN <<>>
    ELSE LET t == sorted_by_len(SubSeq(lists, 1, Len(lists) - 1))
             x == Last(lists)
             k == Cardinality({i \in 1..Len(t) : Len(t[i]) <= Len(x)})
         IN SubSeq(t, 1, k) \o <<x>> \o SubSeq(t, k + 1, Len(t))

\* reversed(s)
reversed(s) == [i \in 1..Len(s) |-> s[Len(s) + 1 - i]]

\* Variant of render_order for sorted(..., key=len, reverse=True): descending,
\* equal lengths keep their order.
render_order_stable(g) == reversed(sorted_by_len(reversed(dict_values(g))))

\* Variant of render_order without reversed(): ascending.
render_order_ascending(g) == sorted_by_len(dict_values(g))

\* line 241: the order in which the groups are rendered
render_order(g) == reversed(sorted_by_len(dict_values(g)))

\* Variant of sum_durations that truncates every duration to whole seconds
\* before adding it.
RECURSIVE sum_truncated_durations(_, _)
sum_truncated_durations(cs, members) ==
    IF members = <<>> THEN Some(0)
    ELSE LET rest == sum_truncated_durations(cs, SubSeq(members, 1, Len(members) - 1))
             d == get_duration(cs[Last(members)])
         IN IF rest = None \/ d = None THEN None ELSE Some(rest[1] + 2 * (d[1] \div 2))

\* line 243: sum(conn.get_duration() for conn in conns), in half seconds;
\* None when a member has no duration (TypeError)
RECURSIVE sum_durations(_, _)
sum_durations(cs, members) ==
    IF members = <<>> THEN Some(0)
    ELSE LET rest == sum_durations(cs, SubSeq(members, 1, Len(members) - 1))
             d == get_duration(cs[Last(members)])
         IN IF rest = None \/ d = None THEN None ELSE Some(rest[1] + d[1])

\* int(duration) of a duration in half seconds: truncation to whole seconds
int_of_float(halves) == IF halves >= 0 THEN halves \div 2 ELSE -((-halves) \div 2)

\* Variant of human_readable_seconds whose last branch takes the minutes
\* from seconds instead of rem.
human_readable_seconds_total_minutes(seconds) ==
    IF seconds < 60 THEN [form |-> "s", hours |-> 0, minutes |-> 0, seconds |-> seconds]
    ELSE IF seconds < 3600
    THEN [form |-> "ms", hours |-> 0, minutes |-> seconds \div 60, seconds |-> seconds % 60]
    ELSE LET rem == seconds % 3600 IN
         [form |-> "hms", hours |-> seconds \div 3600, minutes |-> seconds \div 60,
          seconds |-> rem % 60]

\* human_readable_seconds: form is the f-string chosen ("s": seconds only,
\* "ms": minutes and seconds, "hms": hours, minutes and seconds), the other
\* fields are the numbers it prints.
human_readable_seconds(seconds) ==
    IF seconds < 60 THEN [form |-> "s", hours |-> 0, minutes |-> 0, seconds |-> seconds]
    ELSE IF seconds < 3600
    THEN [form |-> "ms", hours |-> 0, minutes |-> seconds \div 60, seconds |-> seconds % 60]
    ELSE LET rem == seconds % 3600 IN
         [form |-> "hms", hours |-> seconds \div 3600, minutes |-> rem \div 60, seconds |-> rem % 60]

\* Responses of the lookup service: dicts, as sets of <<key, value>>.
GeoResponses ==
    { {},
      {<<"hostname", "h.example">>, <<"org", "AS1 Example">>, <<"region", "Hesse">>},
      {<<"region", "Hesse">>, <<"country", "DE">>} }

geo_has(d, k) == \E kv \in d : kv[1] = k
geo_get(d, k, default) == IF geo_has(d, k) THEN (CHOOSE kv \in d : kv[1] = k)[2] ELSE default

\* lines 245-253: msg for the address ip; info is None without --geo-ip
group_msg(ip, info) ==
    IF info = None THEN <<ip>>
    ELSE LET d == info[1] IN
         <<ip>>
         \o (IF geo_has(d, "hostname") THEN <<geo_get(d, "hostname", "")>> ELSE <<>>)
         \o (IF geo_has(d, "org") THEN <<geo_get(d, "org", "")>> ELSE <<>>)
         \o (IF geo_has(d, "region") THEN <<"(", geo_get(d, "region", ""), geo_get(d, "country", "?"), ")">> ELSE <<>>)

\* line 255: the line printed for one group
group_line(cs, members, info) ==
    Printed("group",
            [msg |-> group_msg(get_ip(cs[members[1]]), info),
             connections |-> Len(members),
             spent |-> human_readable_seconds(int_of_float(sum_durations(cs, members)[1]))])

\* The log source is exhausted and the loop of line 206 ends: lines 224-241,
\* up to the first iteration of the rendering loop. Nothing in them reads an
\* input or raises.
Report ==
    /\ pc = "loop"
    /\ stdout' = stdout \o header_lines(open_connections, closed_connections)
    /\ event' = IF open_connections # <<>> THEN Last(open_connections).key ELSE event
    /\ grouped_connections' = group_by_ip(conns, closed_connections)
    /\ order' = render_order(grouped_connections')
    /\ gi' = 0
    /\ pc' = IF order' = <<>> THEN "done" ELSE "render"
    /\ UNCHANGED <<error, geo_ip, nread, msg, conns, open_connections,
                   closed_connections, stderr, history>>
    /\ UNCHANGED aux_vars

\* One iteration of the loop of line 241 that prints its line: the lookup,
\* when one is made, answers with info.
Render(info) ==
    LET members == order[gi + 1]
        total == sum_durations(conns, members)
    IN /\ msg' = group_msg(get_ip(conns[members[1]]), info)
       /\ IF total = None
          THEN /\ pc' = "aborted"
               /\ error' = "TypeError"
               /\ UNCHANGED <<gi, stdout>>
          ELSE /\ stdout' = Append(stdout, group_line(conns, members, info))
               /\ gi' = gi + 1
               /\ pc' = IF gi + 1 = Len(order) THEN "done" ELSE "render"
               /\ error' = error
       /\ UNCHANGED <<geo_ip, nread, event, conns, open_connections, closed_connections,
                      grouped_connections, order, stderr, history>>
       /\ UNCHANGED aux_vars

RenderGroup ==
    /\ pc = "render"
    /\ gi < Len(order)
    /\ IF geo_ip THEN \E d \in GeoResponses : Render(Some(d)) ELSE Render(None)

\* Variant of GeoFail in which the group's line is printed before the lookup
\* is made.
GeoFailAfterPrint ==
    /\ pc = "render"
    /\ gi < Len(order)
    /\ geo_ip
    /\ msg' = <<get_ip(conns[order[gi + 1][1]])>>
    /\ stdout' = Append(stdout, group_line(conns, order[gi + 1], None))
    /\ pc' = "aborted"
    /\ error' = "URLError"
    /\ UNCHANGED <<geo_ip, nread, event, conns, open_connections, closed_connections,
                   report_vars, stderr, history>>
    /\ UNCHANGED aux_vars

\* One iteration of the loop of line 241 in which get_geoip_info raises
\* (urlopen fails): nothing catches it.
GeoFail ==
    /\ pc = "render"
    /\ gi < Len(order)
    /\ geo_ip
    /\ msg' = <<get_ip(conns[order[gi + 1][1]])>>
    /\ pc' = "aborted"
    /\ error' = "URLError"
    /\ UNCHANGED <<geo_ip, nread, event, conns, open_connections, closed_connections,
                   report_vars, stdout, stderr, history>>
    /\ UNCHANGED aux_vars

Next ==
    \/ ProcessLine
    \/ Report
    \/ RenderGroup
    \/ GeoFail

Spec == Init /\ [][Next]_vars

---------------------------------------------------------------------------
\* The report on its own: the run starts where the loop of line 206 has
\* consumed a journal of up to MaxClosed accepted-and-closed connections,
\* followed or not by one connection that is still open.

ReportHosts == {"1.2.3.4", "::1", "5.6.7.8"}
Sessions == {<<AcceptLine(h, "4"), CloseLine(h, "4", d)>> : h \in ReportHosts, d \in DurStrings}
Tails == {<<>>, <<AcceptLine("1.2.3.4", "5")>>}

RECURSIVE flatten(_)
flatten(ss) == IF ss = <<>> THEN <<>> ELSE ss[1] \o flatten(Tail(ss))

Journals ==
    {flatten(ss) \o t : ss \in UNION {[1..n -> Sessions] : n \in 0..MaxClosed}, t \in Tails}

\* The loop of lines 206-222 run on a journal whose lines all parse and whose
\* CLOSE lines all match.
RECURSIVE run_loop(_)
run_loop(journal) ==
    IF journal = <<>> THEN Loop(<<>>, <<>>, <<>>, <<>>, "")
    ELSE LET s == run_loop(SubSeq(journal, 1, Len(journal) - 1))
             ev == from_journal(Last(journal)).ret[1]
         IN correlate(s.conns, s.open, s.closed, s.stderr, ev)

InitReport ==
    \E journal \in Journals :
        LET s == run_loop(journal) IN
        /\ pc = "loop"
        /\ error = ""
        /\ geo_ip \in BOOLEAN
        /\ nread = Len(journal)
        /\ msg = IF journal = <<>> THEN <<>> ELSE Last(journal)
        /\ event = IF journal = <<>> THEN None ELSE from_journal(Last(journal)).ret
        /\ conns = s.conns
        /\ open_connections = s.open
        /\ closed_connections = s.closed
        /\ grouped_connections = <<>>
        /\ order = <<>>
        /\ gi = 0
        /\ stdout = <<>>
        /\ stderr = <<>>
        /\ history = [i \in 1..Len(journal) |-> from_journal(journal[i]).ret[1]]
        /\ args = TodayArgs
        /\ time_range = Some(get_today_timestamps)
        /\ reader = NoReader
        /\ yielded = <<>>
        /\ hrs_arg = 0
        /\ rendered = None

NextReport ==
    \/ Report
    \/ RenderGroup
    \/ GeoFail

SpecReport == InitReport /\ [][NextReport]_vars

---------------------------------------------------------------------------
\* Vocabulary of the properties.

\* The step reads one journal message (an iteration of the loop of line 206).
LineRead == nread' = nread + 1

\* The step reads a message that parses to an event of type ty.
ReadsEvent(ty) ==
    /\ LineRead
    /\ from_journal(msg').raised = ""
    /\ from_journal(msg').ret # None
    /\ from_journal(msg').ret[1].type = ty

\* The event the step reads.
EventRead == from_journal(msg').ret[1]

\* In the event list h, key k has an ACCEPT that no CLOSE for k follows.
AcceptedNotClosed(h, k) ==
    \E i \in 1..Len(h) :
        /\ h[i].type = "ACCEPT" /\ conn(h[i]) = k
        /\ \A j \in (i + 1)..Len(h) : ~(h[j].type = "CLOSE" /\ conn(h[j]) = k)

\* In the event list h, the last event for key k is an ACCEPT.
LastIsAccept(h, k) ==
    \E i \in 1..Len(h) :
        /\ h[i].type = "ACCEPT" /\ conn(h[i]) = k
        /\ \A j \in (i + 1)..Len(h) : conn(h[j]) # k

\* In the event list h, key k has been closed and not accepted since.
ClosedNotReaccepted(h, k) ==
    \E i \in 1..Len(h) :
        /\ h[i].type = "CLOSE" /\ conn(h[i]) = k
        /\ \A j \in (i + 1)..Len(h) : ~(h[j].type = "ACCEPT" /\ conn(h[j]) = k)

\* The loop of line 206 has ended normally (the input is exhausted).
LoopEnded == pc \in {"render", "done"} \/ (pc = "aborted" /\ error \in {"URLError", "TypeError"})

IsGroupLine(l) == l.line = "group"
\* The address-group lines printed so far, in order.
GroupLines == SelectSeq(stdout, IsGroupLine)

\* The positions in closed_connections of the Connections of address ip.
ClosedOf(ip) == {j \in 1..Len(closed_connections) : get_ip(conns[closed_connections[j]]) = ip}

\* The durations (in half seconds) of the Connections at the positions S of
\* closed_connections, added up.
RECURSIVE HalvesOf(_)
HalvesOf(S) ==
    IF S = {} THEN 0
    ELSE LET j == CHOOSE x \in S : TRUE
         IN Last(conns[closed_connections[j]]).duration[1] + HalvesOf(S \ {j})

\* The whole seconds a printed duration stands for.
SecondsShown(hrs) == 3600 * hrs.hours + 60 * hrs.minutes + hrs.seconds

\* The address a group line starts with.
LineIp(l) == l.what.msg[1]

---------------------------------------------------------------------------
\* C1. Unmatched close is non-fatal: when the loop processes a CLOSE event
\* whose key has no entry in open_connections, exactly one diagnostic is
\* reported, no Connection is created or added to closed_connections, the
\* open mapping is unchanged, and the loop continues.
\* (As stated; the code raises KeyError at line 217 instead.)
C1_UnmatchedCloseNonFatal ==
    [][ (ReadsEvent("CLOSE") /\ ~dict_has(open_connections, conn(EventRead)))
        => /\ pc' = "loop"
           /\ error' = ""
           /\ Len(stdout') + Len(stderr') = Len(stdout) + Len(stderr) + 1
           /\ conns' = conns
           /\ closed_connections' = closed_connections
           /\ open_connections' = open_connections ]_vars

\* C2. When an ACCEPT for a key is followed by a CLOSE for the same key with
\* no other event for that key in between, processing the CLOSE appends
\* exactly one Connection to closed_connections, whose get_duration() is the
\* duration carried by the CLOSE event and whose get_ip() is the address.
C2_AcceptThenClose ==
    [][ (ReadsEvent("CLOSE") /\ LastIsAccept(history, conn(EventRead)))
        => /\ pc' = "loop"
           /\ Len(closed_connections') = Len(closed_connections) + 1
           /\ SubSeq(closed_connections', 1, Len(closed_connections)) = closed_connections
           /\ Last(closed_connections') \notin {closed_connections[i] : i \in 1..Len(closed_connections)}
           /\ EventRead.duration # None
           /\ get_duration(conns'[Last(closed_connections')]) = EventRead.duration
           /\ get_ip(conns'[Last(closed_connections')]) = EventRead.ip ]_vars

\* C2 witness: ACCEPT k, ACCEPT of another key, CLOSE k with duration 1.5 s
\* have been processed and the one closed Connection has that duration.
C2_Witness ==
    /\ pc = "loop"
    /\ Len(history) = 3
    /\ history[1].type = "ACCEPT" /\ history[2].type = "ACCEPT" /\ history[3].type = "CLOSE"
    /\ conn(history[1]) = conn(history[3]) /\ conn(history[2]) # conn(history[3])
    /\ history[3].duration = Some(3)
    /\ Len(closed_connections) = 1
    /\ get_duration(conns[closed_connections[1]]) = Some(3)

\* C3. Key retirement on close: right after a matched CLOSE its key is absent
\* from open_connections; an ACCEPT reusing a closed key creates a fresh
\* single-event Connection registered under the key; and no step changes the
\* events of a Connection that is in closed_connections.
C3_KeyRetirement ==
    [][ /\ (ReadsEvent("CLOSE") /\ AcceptedNotClosed(history, conn(EventRead)))
            => ~dict_has(open_connections', conn(EventRead))
        /\ (ReadsEvent("ACCEPT") /\ ClosedNotReaccepted(history, conn(EventRead)))
            => /\ Len(conns') = Len(conns) + 1
               /\ Last(conns') = <<EventRead>>
               /\ dict_has(open_connections', conn(EventRead))
               /\ dict_get(open_connections', conn(EventRead)) = Len(conns')
        /\ \A i \in 1..Len(closed_connections) :
               /\ closed_connections'[i] = closed_connections[i]
               /\ conns'[closed_connections[i]] = conns[closed_connections[i]] ]_vars

\* C3 witness: a key was accepted, closed, accepted again, and one more
\* event for it has been processed; the closed Connection still has exactly
\* its ACCEPT and its CLOSE.
C3_Witness ==
    /\ pc = "loop"
    /\ Len(history) = 4
    /\ \A i \in 1..4 : conn(history[i]) = conn(history[1])
    /\ history[1].type = "ACCEPT" /\ history[2].type = "CLOSE"
    /\ history[3].type = "ACCEPT" /\ history[4].type = "ACCEPT"
    /\ Len(closed_connections) = 1
    /\ conns[closed_connections[1]] = <<history[1], history[2]>>
    /\ dict_has(open_connections, conn(history[1]))
    /\ conns[dict_get(open_connections, conn(history[1]))] = <<history[3], history[4]>>

\* C4. Once the input is exhausted, every key with an ACCEPT that no CLOSE
\* for it follows is in open_connections and is listed in the 'Currently
\* open connections' section; its Connection is a member of no group, and
\* every group line counts and sums the closed Connections of its address
\* only.
C4_OpenNotAggregated ==
    LoopEnded =>
        /\ \A n \in 1..Len(history) :
            AcceptedNotClosed(history, conn(history[n])) =>
                /\ dict_has(open_connections, conn(history[n]))
                /\ \E i \in 1..Len(stdout) :
                    /\ stdout[i].line = "Currently open connections:"
                    /\ \E j \in (i + 1)..Len(stdout) :
                        stdout[j].line = "event=" /\ stdout[j].what = conn(history[n])
                /\ \A g \in 1..Len(grouped_connections) :
                    \A m \in 1..Len(grouped_connections[g].val) :
                        grouped_connections[g].val[m] # dict_get(open_connections, conn(history[n]))
                /\ \A g \in 1..Len(order) :
                    \A m \in 1..Len(order[g]) :
                        order[g][m] # dict_get(open_connections, conn(history[n]))
        /\ \A i \in 1..Len(GroupLines) :
            /\ GroupLines[i].what.connections = Cardinality(ClosedOf(LineIp(GroupLines[i])))
            /\ SecondsShown(GroupLines[i].what.spent) = HalvesOf(ClosedOf(LineIp(GroupLines[i]))) \div 2

\* C4 witness: the report is complete for a journal that closed one
\* connection of an address and left another connection of the same address
\* open; the address's line counts 1 connection.
C4_Witness ==
    /\ pc = "done"
    /\ Len(open_connections) = 1
    /\ Len(closed_connections) = 1
    /\ open_connections[1].key[1] = get_ip(conns[closed_connections[1]])
    /\ AcceptedNotClosed(history, open_connections[1].key)
    /\ Len(GroupLines) = 1
    /\ GroupLines[1].what.connections = 1

\* C9. A line with fewer than 6 fields, or whose field 2 does not begin with
\* host=, is skipped: from_journal returns no event, raises nothing and
\* prints nothing, and the loop leaves open_connections and
\* closed_connections unchanged and goes on to the next line.
C9_MalformedSkipped ==
    [][ (LineRead /\ (Len(msg') < 6 \/ ~(Len(msg'[3]) >= 2 /\ msg'[3][1] = "host")))
        => /\ event' = None
           /\ pc' = "loop"
           /\ error' = ""
           /\ stdout' = stdout
           /\ stderr' = stderr
           /\ open_connections' = open_connections
           /\ closed_connections' = closed_connections
           /\ conns' = conns
           /\ history' = history ]_vars

\* C9 witness: a line of fewer than 6 fields has just been read while a
\* connection was open; the loop is still running and no event was returned.
C9_Witness ==
    /\ pc = "loop"
    /\ nread = 2
    /\ Len(msg) < 6
    /\ event = None
    /\ Len(open_connections) = 1
    /\ stdout = <<>>

\* C10. A line with a keyword other than ACCEPT and CLOSE whose address,
\* descriptor and timestamp parse prints one diagnostic, yields an event of
\* type UNKNOWN with no duration, does not end the run, and leaves
\* open_connections, closed_connections and every Connection unchanged.
C10_UnknownKeyword ==
    [][ (/\ LineRead
         /\ Len(msg') >= 6
         /\ Len(msg'[3]) >= 2 /\ msg'[3][1] = "host"
         /\ msg'[2][1] \notin {"ACCEPT", "CLOSE"}
         /\ ip_address(msg'[3][2]) # None
         /\ Len(msg'[5]) >= 2 /\ int_(msg'[5][2]) # None
         /\ strptime(msg'[1][1]) # None)
        => /\ stdout' = Append(stdout, UnmatchedType(msg'[2][1]))
           /\ stderr' = stderr
           /\ event' # None
           /\ event'[1].type = "UNKNOWN"
           /\ event'[1].duration = None
           /\ event'[1].ip = ip_address(msg'[3][2])[1]
           /\ pc' = "loop"
           /\ error' = ""
           /\ open_connections' = open_connections
           /\ closed_connections' = closed_connections
           /\ conns' = conns ]_vars

\* C10 witness: a PING line for the key of an open connection has just been
\* read: one diagnostic is printed and the connection still has its one event.
C10_Witness ==
    /\ pc = "loop"
    /\ nread = 2
    /\ event # None
    /\ event[1].type = "UNKNOWN"
    /\ event[1].duration = None
    /\ stdout = <<UnmatchedType("PING")>>
    /\ Len(open_connections) = 1
    /\ open_connections[1].key = conn(event[1])
    /\ Len(conns[open_connections[1].val]) = 1

\* The line m has at least 6 fields and a host= field 2, and its address
\* is bad, its descriptor is not an integer, or it is a CLOSE line whose
\* duration is not a number.
FieldParseFailure(m) ==
    /\ Len(m) >= 6
    /\ Len(m[3]) >= 2 /\ m[3][1] = "host"
    /\ \/ ip_address(m[3][2]) = None
       \/ (Len(m[5]) >= 2 /\ int_(m[5][2]) = None)
       \/ (m[2][1] = "CLOSE" /\ Len(m[6]) >= 2 /\ float_(m[6][2]) = None)

\* C11. A field-value parse failure on a line with at least 6 fields and a
\* host= field 2 is fatal: the exception leaves the loop (the line is not
\* skipped and yields no event), the correlator state is as it was, and no
\* later line is processed.
C11_ParseFailureFatal ==
    [][ /\ (LineRead /\ FieldParseFailure(msg'))
            => /\ pc' = "aborted"
               /\ error' \in {"ValueError", "IndexError"}
               /\ event' = event
               /\ history' = history
               /\ conns' = conns
               /\ open_connections' = open_connections
               /\ closed_connections' = closed_connections
        /\ (pc = "aborted" /\ error \in {"ValueError", "IndexError"}) => FALSE ]_vars

\* C11 witness: after an ACCEPT for (1.2.3.4, 4), the CLOSE line for that key
\* with time=soon has ended the run with a ValueError; the connection is
\* still open and nothing is closed.
C11_Witness ==
    /\ pc = "aborted"
    /\ error = "ValueError"
    /\ nread = 2
    /\ FieldParseFailure(msg)
    /\ msg[2][1] = "CLOSE"
    /\ ip_address(msg[3][2]) # None
    /\ int_(msg[5][2]) # None
    /\ Len(open_connections) = 1
    /\ open_connections[1].key = <<"1.2.3.4", 4>>
    /\ closed_connections = <<>>

---------------------------------------------------------------------------
\* Aggregation and rendering (checked on SpecReport).

\* The durations (in half seconds) of the Connections with the ids S, added up.
RECURSIVE HalvesOfIds(_)
HalvesOfIds(S) ==
    IF S = {} THEN 0
    ELSE LET c == CHOOSE x \in S : TRUE IN Last(conns[c]).duration[1] + HalvesOfIds(S \ {c})

Members(list) == {list[m] : m \in 1..Len(list)}

RECURSIVE TotalConnections(_)
TotalConnections(lines) ==
    IF lines = <<>> THEN 0 ELSE lines[1].what.connections + TotalConnections(Tail(lines))

\* Each closed Connection is in exactly one group, the group of its get_ip().
Partitioned ==
    /\ \A j \in 1..Len(closed_connections) :
        /\ Cardinality({gm \in (1..Len(grouped_connections)) \X (1..Len(closed_connections)) :
                /\ gm[2] <= Len(grouped_connections[gm[1]].val)
                /\ grouped_connections[gm[1]].val[gm[2]] = closed_connections[j]}) = 1
        /\ \E g \in 1..Len(grouped_connections) :
            /\ grouped_connections[g].key = get_ip(conns[closed_connections[j]])
            /\ closed_connections[j] \in Members(grouped_connections[g].val)
    /\ \A g \in 1..Len(grouped_connections) :
        /\ grouped_connections[g].val # <<>>
        /\ Members(grouped_connections[g].val) \subseteq Members(closed_connections)
    /\ Len(order) = Len(grouped_connections)
    /\ \A g \in 1..Len(grouped_connections) :
        Cardinality({i \in 1..Len(order) : order[i] = grouped_connections[g].val}) = 1

\* The i-th line printed is the line of the i-th group of the order, with the
\* number of its members; once all are printed the counts add up to
\* len(closed_connections).
CountsReported ==
    /\ Len(GroupLines) <= Len(order)
    /\ \A i \in 1..Len(GroupLines) :
        /\ LineIp(GroupLines[i]) = get_ip(conns[order[i][1]])
        /\ GroupLines[i].what.connections = Len(order[i])
        /\ GroupLines[i].what.connections = Cardinality(Members(order[i]))
    /\ pc = "done" => TotalConnections(GroupLines) = Len(closed_connections)

\* C5 as stated: aggregation partitions the closed connections by address,
\* every group's reported count is the number of its members and its
\* reported total duration EQUALS the sum of its members' durations, and the
\* counts add up to len(closed_connections).
C5_AggregationExact ==
    LoopEnded =>
        /\ Partitioned
        /\ CountsReported
        /\ \A i \in 1..Len(GroupLines) :
            2 * SecondsShown(GroupLines[i].what.spent) = HalvesOfIds(Members(order[i]))

\* C5 amended: as C5, but the reported total duration is the sum of the
\* members' durations truncated to whole seconds (int(duration), line 255).
C5_AggregationTruncated ==
    LoopEnded =>
        /\ Partitioned
        /\ CountsReported
        /\ \A i \in 1..Len(GroupLines) :
            SecondsShown(GroupLines[i].what.spent) = HalvesOfIds(Members(order[i])) \div 2

\* C5 witness: a complete report with a group of two members of 0.5 s and
\* 1.5 s (shown as 2 seconds) and a group of one member of 1.5 s (shown as 1).
C5_Witness ==
    /\ pc = "done"
    /\ Len(GroupLines) = 2
    /\ GroupLines[1].what.connections = 2
    /\ HalvesOfIds(Members(order[1])) = 4
    /\ SecondsShown(GroupLines[1].what.spent) = 2
    /\ GroupLines[2].what.connections = 1
    /\ HalvesOfIds(Members(order[2])) = 3
    /\ SecondsShown(GroupLines[2].what.spent) = 1

\* The position in closed_connections of the first Connection of address ip.
FirstClosed(ip) == CHOOSE j \in ClosedOf(ip) : \A k \in ClosedOf(ip) : j <= k

\* C6 as stated: of two address groups with the same connection count, the
\* one whose first member was closed EARLIER is rendered before the other.
C6_TiesInEncounterOrder ==
    pc = "done" =>
        \A i, j \in 1..Len(GroupLines) :
            (/\ GroupLines[i].what.connections = GroupLines[j].what.connections
             /\ FirstClosed(LineIp(GroupLines[i])) < FirstClosed(LineIp(GroupLines[j])))
            => i < j

\* C6 amended: of two address groups with the same connection count, the one
\* whose first member was closed LATER is rendered before the other
\* (reversed() of a stable ascending sort, line 241).
C6_TiesInReverseEncounterOrder ==
    pc = "done" =>
        \A i, j \in 1..Len(GroupLines) :
            (/\ GroupLines[i].what.connections = GroupLines[j].what.connections
             /\ FirstClosed(LineIp(GroupLines[i])) < FirstClosed(LineIp(GroupLines[j])))
            => i > j

\* C6 witness: a complete report of three groups of one connection each.
C6_Witness ==
    /\ pc = "done"
    /\ Len(GroupLines) = 3
    /\ \A i \in 1..3 : GroupLines[i].what.connections = 1
    /\ FirstClosed(LineIp(GroupLines[1])) = 3
    /\ FirstClosed(LineIp(GroupLines[3])) = 1

\* C7. The address-group lines are printed in an order whose connection
\* counts never increase.
C7_CountsNonIncreasing ==
    \A i, j \in 1..Len(GroupLines) :
        i < j => GroupLines[i].what.connections >= GroupLines[j].what.connections

\* C7 witness: a complete report whose first line counts 2 connections and
\* whose second counts 1, the smaller group having been closed first.
C7_Witness ==
    /\ pc = "done"
    /\ Len(GroupLines) = 2
    /\ GroupLines[1].what.connections = 2
    /\ GroupLines[2].what.connections = 1
    /\ FirstClosed(LineIp(GroupLines[2])) = 1

\* C8 as stated: when a geolocation lookup fails, no report output (the
\* closed-connection count or any address group line) has been emitted.
C8_NoPartialReport ==
    (pc = "aborted" /\ error = "URLError") =>
        \A i \in 1..Len(stdout) : stdout[i].line \notin {"Closed connections:", "group"}

\* What has been printed when the lookup for group gi + 1 has failed.
PartialReport ==
    /\ pc = "aborted"
    /\ geo_ip
    /\ gi < Len(order)
    /\ \E i \in 1..Len(stdout) :
        stdout[i].line = "Closed connections:" /\ stdout[i].what = Len(closed_connections)
    /\ Len(GroupLines) = gi
    /\ \A i \in 1..gi : LineIp(GroupLines[i]) = get_ip(conns[order[i][1]])
    /\ \A i \in 1..Len(GroupLines), g \in (gi + 1)..Len(order) :
        LineIp(GroupLines[i]) # get_ip(conns[order[g][1]])

\* C8 amended: when enrichment is requested and the lookup for a group
\* fails, the run ends fatally (no step follows); the closed-connection count
\* and the lines of the groups rendered before the failing one have been
\* emitted, and no line of the failing group or of a later group is.
C8_FatalAfterPartialReport ==
    [][ /\ error' = "URLError" => PartialReport'
        /\ error = "URLError" => FALSE ]_vars

\* C8 witness: the lookup failed for the second of at least two groups, the
\* first group's line being printed already.
C8_Witness ==
    /\ pc = "aborted"
    /\ error = "URLError"
    /\ gi = 1
    /\ Len(order) >= 2
    /\ Len(GroupLines) = 1

---------------------------------------------------------------------------
\* Invariants of the correlator.

\* The number of events of type ty in an events list.
CountType(events, ty) == Cardinality({i \in 1..Len(events) : events[i].type = ty})

\* C15. Every member of closed_connections has a CLOSE as its last event,
\* that CLOSE is its only CLOSE event and get_duration() is not None; and
\* every parsed event has a duration if and only if its type is CLOSE.
C15_ClosedHaveDuration ==
    /\ \A j \in 1..Len(closed_connections) :
        /\ Last(conns[closed_connections[j]]).type = "CLOSE"
        /\ CountType(conns[closed_connections[j]], "CLOSE") = 1
        /\ get_duration(conns[closed_connections[j]]) # None
    /\ \A i \in 1..Len(history) :
        (history[i].duration # None) <=> (history[i].type = "CLOSE")

\* C15 witness: two ACCEPTs and a CLOSE for one key and a PING line have been
\* parsed; the closed Connection has three events.
C15_Witness ==
    /\ pc = "loop"
    /\ Len(history) = 4
    /\ \E i \in 1..4 : history[i].type = "UNKNOWN"
    /\ Len(closed_connections) = 1
    /\ Len(conns[closed_connections[1]]) = 3
    /\ get_duration(conns[closed_connections[1]]) = Some(1)

\* C16. All events of every Connection, open or closed, share the address
\* and descriptor of its first event; every open Connection is registered in
\* open_connections under exactly the key (address, fd) of its events, once.
C16_EventsShareKey ==
    /\ \A id \in 1..Len(conns) :
        /\ conns[id] # <<>>
        /\ \A i \in 1..Len(conns[id]) :
            /\ conns[id][i].ip = conns[id][1].ip
            /\ conns[id][i].fd = conns[id][1].fd
    /\ \A n \in 1..Len(open_connections) :
        /\ open_connections[n].key =
               <<conns[open_connections[n].val][1].ip, conns[open_connections[n].val][1].fd>>
        /\ \A m \in 1..Len(open_connections) :
            m # n => /\ open_connections[m].key # open_connections[n].key
                     /\ open_connections[m].val # open_connections[n].val
    /\ \A id \in 1..Len(conns) :
        \/ \E n \in 1..Len(open_connections) : open_connections[n].val = id
        \/ \E j \in 1..Len(closed_connections) : closed_connections[j] = id

\* C16 witness: two connections of one address and different descriptors
\* are open, the first with two events.
C16_Witness ==
    /\ pc = "loop"
    /\ Len(open_connections) = 2
    /\ open_connections[1].key[1] = open_connections[2].key[1]
    /\ open_connections[1].key[2] # open_connections[2].key[2]
    /\ Len(conns[open_connections[1].val]) = 2

\* The ACCEPT events for key k in the event list h that follow the last
\* CLOSE for k.
AcceptsSinceClose(h, k) ==
    LET closes == {i \in 1..Len(h) : h[i].type = "CLOSE" /\ conn(h[i]) = k}
        from == IF closes = {} THEN 1
                ELSE (CHOOSE i \in closes : \A j \in closes : j <= i) + 1
        IsAccept(e) == e.type = "ACCEPT" /\ conn(e) = k
    IN SelectSeq(SubSeq(h, from, Len(h)), IsAccept)

\* C17. A repeated ACCEPT for a key that has an open Connection is appended
\* to that Connection and creates no new Connection; a subsequent CLOSE for
\* the key yields exactly one closed Connection, made of all those ACCEPT
\* events followed by the CLOSE, and the report counts it once, in the group
\* of its address.
C17_RepeatedAccept ==
    [][ /\ (ReadsEvent("ACCEPT") /\ AcceptedNotClosed(history, conn(EventRead)))
            => /\ dict_has(open_connections, conn(EventRead))
               /\ pc' = "loop"
               /\ open_connections' = open_connections
               /\ closed_connections' = closed_connections
               /\ conns' = [conns EXCEPT ![dict_get(open_connections, conn(EventRead))] =
                                Append(@, EventRead)]
        /\ (ReadsEvent("CLOSE") /\ AcceptedNotClosed(history, conn(EventRead)))
            => /\ dict_has(open_connections, conn(EventRead))
               /\ pc' = "loop"
               /\ Len(conns') = Len(conns)
               /\ closed_connections' =
                      Append(closed_connections, dict_get(open_connections, conn(EventRead)))
               /\ conns'[Last(closed_connections')] =
                      Append(AcceptsSinceClose(history, conn(EventRead)), EventRead)
        /\ LoopEnded' => (Partitioned /\ CountsReported)' ]_vars

\* C17 witness: ACCEPT, ACCEPT, CLOSE for one key, then the report: one
\* Connection of three events, one group line counting one connection.
C17_Witness ==
    /\ pc = "done"
    /\ Len(conns) = 1
    /\ closed_connections = <<1>>
    /\ Len(conns[1]) = 3
    /\ conns[1][1].type = "ACCEPT" /\ conns[1][2].type = "ACCEPT" /\ conns[1][3].type = "CLOSE"
    /\ Len(GroupLines) = 1
    /\ GroupLines[1].what.connections = 1

\* The errors of Connection.add_event (lines 72-76).
IntegrityErrors ==
    {"ValueError: Invalid IP for connection!", "ValueError: Invalid fd for connection!"}

\* C18. Neither ValueError of Connection.add_event is raised from the loop:
\* whenever an ACCEPT or CLOSE event finds a Connection under its key, that
\* Connection's last event has the event's ip and fd, and add_event raises
\* nothing.
C18_IntegrityErrorUnreachable ==
    [][ /\ error' \notin IntegrityErrors
        /\ ((ReadsEvent("ACCEPT") \/ ReadsEvent("CLOSE"))
                /\ dict_has(open_connections, conn(EventRead)))
            => /\ Last(conns[dict_get(open_connections, conn(EventRead))]).ip = EventRead.ip
               /\ Last(conns[dict_get(open_connections, conn(EventRead))]).fd = EventRead.fd
               /\ add_event(conns[dict_get(open_connections, conn(EventRead))],
                            EventRead).raised = "" ]_vars

\* C18 witness: add_event has been called twice on a Connection while a
\* Connection of the same address and another descriptor is open.
C18_Witness ==
    /\ pc = "loop"
    /\ error = ""
    /\ Len(closed_connections) = 1
    /\ Len(conns[closed_connections[1]]) = 3
    /\ Len(open_connections) = 1
    /\ open_connections[1].key[1] = get_ip(conns[closed_connections[1]])
    /\ open_connections[1].key[2] # conns[closed_connections[1]][1].fd

\* The per-line diagnostic of from_journal (line 57).
IsDiagnostic(l) == l.line = "Unmatched connection type"

\* C19. No line of the report is printed before the last log line has been
\* parsed and applied: a step that reads a line leaves only per-line
\* diagnostics on stdout, once a report line is out no step reads a line or
\* changes the correlator state, and an abort inside the loop leaves only
\* diagnostics.
C19_ReportAfterInput ==
    [][ /\ LineRead => \A i \in 1..Len(stdout') : IsDiagnostic(stdout'[i])
        /\ (\E i \in 1..Len(stdout) : ~IsDiagnostic(stdout[i]))
            => /\ nread' = nread
               /\ history' = history
               /\ conns' = conns
               /\ open_connections' = open_connections
               /\ closed_connections' = closed_connections
        /\ (pc' = "aborted" /\ ~LoopEnded')
            => \A i \in 1..Len(stdout') : IsDiagnostic(stdout'[i]) ]_vars

\* C19 witness: a diagnostic was printed in the loop, a connection closed,
\* and the whole report follows the diagnostic.
C19_Witness ==
    /\ pc = "done"
    /\ nread = 3
    /\ Len(closed_connections) = 1
    /\ IsDiagnostic(stdout[1])
    /\ \A i \in 2..Len(stdout) : ~IsDiagnostic(stdout[i])
    /\ Len(GroupLines) = 1

\* The CLOSE events of the event list h whose key had an open Connection.
MatchedCloses(h) ==
    {i \in 1..Len(h) : h[i].type = "CLOSE" /\ AcceptedNotClosed(SubSeq(h, 1, i - 1), conn(h[i]))}

\* C20. closed_connections is append-only and disjoint from the open set: no
\* step removes or reorders a member or changes its events, its length is
\* the number of matched CLOSE events processed, no Connection is both a
\* value of open_connections and a member of closed_connections, and every
\* open Connection is one or more ACCEPT events and nothing else.
C20_ClosedAppendOnly ==
    [][ /\ Len(closed_connections') >= Len(closed_connections)
        /\ \A i \in 1..Len(closed_connections) :
            /\ closed_connections'[i] = closed_connections[i]
            /\ conns'[closed_connections[i]] = conns[closed_connections[i]]
        /\ Len(closed_connections') = Cardinality(MatchedCloses(history'))
        /\ \A n \in 1..Len(open_connections') :
            /\ open_connections'[n].val \notin Members(closed_connections')
            /\ conns'[open_connections'[n].val] # <<>>
            /\ \A i \in 1..Len(conns'[open_connections'[n].val]) :
                conns'[open_connections'[n].val][i].type = "ACCEPT" ]_vars

\* C20 witness: two matched CLOSE events have been processed.
C20_Witness ==
    /\ pc = "loop"
    /\ nread = 4
    /\ Len(closed_connections) = 2
    /\ Cardinality(MatchedCloses(history)) = 2
    /\ closed_connections[1] # closed_connections[2]

---------------------------------------------------------------------------
\* Time-window selection: parse_arguments and resolve_time_range, then main.

\* The values given to --start and to --end.
StartStrings == {"2025-08-01T00:00:00", "yesterday"}
EndStrings == {"2025-08-01T12:00:00", "2025-08-01"}

\* The command lines: presence of --today and --yesterday, and the values of
\* --start and --end (None when the option is absent).
CommandLines ==
    [today : BOOLEAN, yesterday : BOOLEAN,
     start : {None} \cup {Some(t) : t \in StartStrings},
     end : {None} \cup {Some(t) : t \in EndStrings}]

\* parse_datetime followed by int(.timestamp()) (lines 143-145): the instant
\* of a string in DATETIME_FORMAT, None where strptime raises ValueError.
parse_datetime(dt_str) ==
    IF dt_str = "2025-08-01T00:00:00" THEN Some(0)
    ELSE IF dt_str = "2025-08-01T12:00:00" THEN Some(43200)
    ELSE None

\* What parse_arguments and resolve_time_range return or raise.
Parsed(ret, raised, message) == [ret |-> ret, raised |-> raised, message |-> message]

\* Variant of parse_arguments whose line 131 tests `and` instead of `or`.
parse_arguments_and(argv) ==
    IF argv.today /\ argv.yesterday
    THEN Parsed(None, "SystemExit(2)", "argument --yesterday: not allowed with argument --today")
    ELSE IF argv.today \/ argv.yesterday
    THEN IF argv.start # None \/ argv.end # None
         THEN Parsed(None, "SystemExit(2)",
                     "When using --today or --yesterday, you cannot specify --start or --end")
         ELSE Parsed(Some(argv), "", "")
    ELSE IF argv.start = None /\ argv.end = None
         THEN Parsed(None, "SystemExit(2)",
                     "You must specify both --start and --end if not using --today or --yesterday")
         ELSE Parsed(Some(argv), "", "")

\* parse_arguments: parse_args (line 123) rejects --today with --yesterday,
\* the tests of lines 126-132 reject the other combinations; parser.error
\* prints the message and exits with status 2.
parse_arguments(argv) ==
    IF argv.today /\ argv.yesterday
    THEN Parsed(None, "SystemExit(2)", "argument --yesterday: not allowed with argument --today")
    ELSE IF argv.today \/ argv.yesterday
    THEN IF argv.start # None \/ argv.end # None
         THEN Parsed(None, "SystemExit(2)",
                     "When using --today or --yesterday, you cannot specify --start or --end")
         ELSE Parsed(Some(argv), "", "")
    ELSE IF argv.start = None \/ argv.end = None
         THEN Parsed(None, "SystemExit(2)",
                     "You must specify both --start and --end if not using --today or --yesterday")
         ELSE Parsed(Some(argv), "", "")

\* resolve_time_range. strptime raises TypeError on None, ValueError
\* (re-raised by line 105) on a string that does not match.
resolve_time_range(a) ==
    IF a.today THEN Parsed(Some(get_today_timestamps), "", "")
    ELSE IF a.yesterday THEN Parsed(Some(get_yesterday_timestamps), "", "")
    ELSE IF a.start = None THEN Parsed(None, "TypeError: strptime() argument 1 must be str", "")
    ELSE IF parse_datetime(a.start[1]) = None
    THEN Parsed(None, "ValueError", <<"Datetime does not match format", a.start[1]>>)
    ELSE IF a.end = None THEN Parsed(None, "TypeError: strptime() argument 1 must be str", "")
    ELSE IF parse_datetime(a.end[1]) = None
    THEN Parsed(None, "ValueError", <<"Datetime does not match format", a.end[1]>>)
    ELSE Parsed(Some(<<parse_datetime(a.start[1])[1], parse_datetime(a.end[1])[1]>>), "", "")

main_vars == <<geo_ip, nread, msg, event, conns, open_connections, closed_connections,
               grouped_connections, order, gi, stdout, history>>

\* line 197
ParseArguments ==
    /\ pc = "parse_arguments"
    /\ IF parse_arguments(args).raised # ""
       THEN /\ pc' = "exited"
            /\ error' = parse_arguments(args).raised
            /\ stderr' = Append(stderr, Printed("error:", parse_arguments(args).message))
            /\ args' = args
       ELSE /\ pc' = "resolve_time_range"
            /\ args' = parse_arguments(args).ret[1]
            /\ UNCHANGED <<error, stderr>>
    /\ UNCHANGED <<main_vars, time_range, reader, yielded, hrs_arg, rendered>>

\* lines 198-205: the ValueError is printed and the run exits with status 1;
\* any other exception leaves main.
ResolveTimeRange ==
    /\ pc = "resolve_time_range"
    /\ IF resolve_time_range(args).raised = "ValueError"
       THEN /\ pc' = "exited"
            /\ error' = "SystemExit(1)"
            /\ stderr' = Append(stderr, Printed("Error:", resolve_time_range(args).message))
            /\ time_range' = time_range
       ELSE IF resolve_time_range(args).raised # ""
       THEN /\ pc' = "aborted"
            /\ error' = resolve_time_range(args).raised
            /\ UNCHANGED <<stderr, time_range>>
       ELSE /\ pc' = "loop"
            /\ time_range' = resolve_time_range(args).ret
            /\ UNCHANGED <<error, stderr>>
    /\ UNCHANGED <<main_vars, args, reader, yielded, hrs_arg, rendered>>

\* A run of main from its first line, without --geo-ip.
InitArgs ==
    /\ pc = "parse_arguments"
    /\ error = ""
    /\ geo_ip = FALSE
    /\ nread = 0
    /\ msg = <<>>
    /\ event = None
    /\ conns = <<>>
    /\ open_connections = <<>>
    /\ closed_connections = <<>>
    /\ grouped_connections = <<>>
    /\ order = <<>>
    /\ gi = 0
    /\ stdout = <<>>
    /\ stderr = <<>>
    /\ history = <<>>
    /\ args \in CommandLines
    /\ time_range = None
    /\ reader = NoReader
    /\ yielded = <<>>
    /\ hrs_arg = 0
    /\ rendered = None

NextArgs ==
    \/ ParseArguments
    \/ ResolveTimeRange
    \/ ProcessLine
    \/ Report
    \/ RenderGroup

SpecArgs == InitArgs /\ [][NextArgs]_vars

\* The selections the claim lists as usage errors.
BadSelection(a) ==
    \/ (a.today \/ a.yesterday) /\ (a.start # None \/ a.end # None)
    \/ a.today /\ a.yesterday
    \/ ~(a.today \/ a.yesterday) /\ (a.start = None \/ a.end = None)

\* An explicit window one of whose timestamps does not parse.
Unparseable(a) ==
    /\ ~a.today /\ ~a.yesterday /\ a.start # None /\ a.end # None
    /\ (parse_datetime(a.start[1]) = None \/ parse_datetime(a.end[1]) = None)

\* C12. A preset together with --start or --end, both presets, or neither a
\* preset nor both of --start and --end, is a fatal usage error, and so is
\* an unparseable explicit timestamp: the run exits, and it does so before
\* any line is read from the log source. Every other selection goes on to
\* the loop; nothing follows an exit.
C12_OneModeOrFatal ==
    [][ /\ (pc = "parse_arguments" /\ BadSelection(args))
            => /\ pc' = "exited" /\ error' = "SystemExit(2)"
               /\ Len(stderr') = Len(stderr) + 1
        /\ (pc = "parse_arguments" /\ ~BadSelection(args)) => pc' = "resolve_time_range"
        /\ (pc = "resolve_time_range" /\ Unparseable(args))
            => /\ pc' = "exited" /\ error' = "SystemExit(1)"
               /\ Len(stderr') = Len(stderr) + 1
        /\ (pc = "resolve_time_range" /\ ~Unparseable(args))
            => /\ ~BadSelection(args) /\ pc' = "loop" /\ time_range' # None
        /\ pc' = "exited" => nread' = 0 /\ history' = <<>> /\ stdout' = <<>>
        /\ pc = "exited" => FALSE
        /\ LineRead => /\ pc = "loop" /\ time_range # None
                       /\ ~BadSelection(args) /\ ~Unparseable(args) ]_vars

\* C12 witness: --start parses, --end does not; the run has exited with
\* status 1 and no line was read.
C12_Witness ==
    /\ pc = "exited"
    /\ error = "SystemExit(1)"
    /\ args.start # None /\ parse_datetime(args.start[1]) # None
    /\ args.end # None /\ parse_datetime(args.end[1]) = None
    /\ Len(stderr) = 1
    /\ nread = 0

---------------------------------------------------------------------------
\* human_readable_seconds on its own.

\* A call of human_readable_seconds with a non-negative integer.
InitSeconds ==
    /\ pc = "called"
    /\ error = ""
    /\ geo_ip = FALSE
    /\ nread = 0
    /\ msg = <<>>
    /\ event = None
    /\ conns = <<>>
    /\ open_connections = <<>>
    /\ closed_connections = <<>>
    /\ grouped_connections = <<>>
    /\ order = <<>>
    /\ gi = 0
    /\ stdout = <<>>
    /\ stderr = <<>>
    /\ history = <<>>
    /\ args = TodayArgs
    /\ time_range = None
    /\ reader = NoReader
    /\ yielded = <<>>
    /\ hrs_arg \in 0..MaxSeconds
    /\ rendered = None

\* lines 171-183
HumanReadableSeconds ==
    /\ pc = "called"
    /\ rendered' = Some(human_readable_seconds(hrs_arg))
    /\ pc' = "returned"
    /\ UNCHANGED <<main_vars, error, stderr, args, time_range, reader, yielded, hrs_arg>>

NextSeconds == HumanReadableSeconds

SpecSeconds == InitSeconds /\ [][NextSeconds]_vars

\* The general part of C13: the form and the numbers rendered for hrs_arg.
RendersDecomposition ==
    /\ hrs_arg < 60 => /\ rendered[1].form = "s"
                       /\ rendered[1].seconds = hrs_arg
    /\ (60 <= hrs_arg /\ hrs_arg < 3600)
        => /\ rendered[1].form = "ms"
           /\ hrs_arg = 60 * rendered[1].minutes + rendered[1].seconds
           /\ 0 <= rendered[1].seconds /\ rendered[1].seconds < 60
    /\ hrs_arg >= 3600
        => /\ rendered[1].form = "hms"
           /\ hrs_arg = 3600 * rendered[1].hours + 60 * rendered[1].minutes
                        + rendered[1].seconds
           /\ 0 <= rendered[1].minutes /\ rendered[1].minutes < 60
           /\ 0 <= rendered[1].seconds /\ rendered[1].seconds < 60

\* C13 as stated. For every non-negative integer n: n < 60 renders seconds
\* only; 60 <= n < 3600 renders minutes m and seconds s with n = 60*m + s
\* and 0 <= s < 60; n >= 3600 renders hours h, minutes m and seconds s with
\* n = 3600*h + 60*m + s, 0 <= m < 60 and 0 <= s < 60; 125 gives 2 minutes
\* 5 seconds and 3725 gives 1 hour 0 minutes 5 seconds.
C13_HumanReadableAsStated ==
    rendered # None =>
        /\ RendersDecomposition
        /\ hrs_arg = 125 => (rendered[1].minutes = 2 /\ rendered[1].seconds = 5)
        /\ hrs_arg = 3725 => (/\ rendered[1].hours = 1 /\ rendered[1].minutes = 0
                              /\ rendered[1].seconds = 5)

\* C13, amended: the same, except that 3725 gives 1 hour 2 minutes 5 seconds
\* (3725 = 3600*1 + 60*2 + 5).
C13_HumanReadable ==
    rendered # None =>
        /\ RendersDecomposition
        /\ hrs_arg = 125 => (rendered[1].minutes = 2 /\ rendered[1].seconds = 5)
        /\ hrs_arg = 3725 => (/\ rendered[1].hours = 1 /\ rendered[1].minutes = 2
                              /\ rendered[1].seconds = 5)

\* C13 witness: 3725 has been rendered in the hours form.
C13_Witness ==
    /\ pc = "returned"
    /\ hrs_arg = 3725
    /\ rendered # None
    /\ rendered[1].form = "hms"

---------------------------------------------------------------------------
\* The log source adapter yield_journal_messages on its own.
\* start_time and end_time are whole seconds in 0..MaxTime; an entry's
\* __REALTIME_TIMESTAMP is a number of half seconds, so that the int() of
\* line 165 has something to truncate.

Stamps == 0..(2 * MaxTime + 1)

\* The MESSAGE text of the i-th entry of the journal, when it has one.
Texts == <<"m1", "m2", "m3", "m4", "m5">>

\* The journals of the unit: up to MaxEntries entries in time order, each
\* with or without a MESSAGE field.
UnitJournals ==
    UNION {
        {[i \in 1..n |-> [ts |-> f[i][1],
                          MESSAGE |-> IF f[i][2] THEN Some(Texts[i]) ELSE None]] :
            f \in {g \in [1..n -> Stamps \X BOOLEAN] :
                       \A i \in 1..(n - 1) : g[i][1] <= g[i + 1][1]}}
        : n \in 0..MaxEntries}

\* Reader.seek_realtime (line 156): the cursor is placed so that the next
\* get_next() returns the first entry at or after t, as the comment of line
\* 157 says; past the last entry when there is none.
seek_realtime(r, t) ==
    LET later == {i \in 1..Len(r.entries) : r.entries[i].ts >= 2 * t}
    IN [r EXCEPT !.next = IF later = {} THEN Len(r.entries) + 1
                          ELSE CHOOSE i \in later : \A k \in later : i <= k]

\* Reader.get_next: moves to the next entry and returns it, or returns an
\* empty dict (None here) at the end of the journal.
get_next(r) ==
    IF r.next <= Len(r.entries)
    THEN [entry |-> Some(r.entries[r.next]), reader |-> [r EXCEPT !.next = r.next + 1]]
    ELSE [entry |-> None, reader |-> r]

\* int(realtime.timestamp()) (line 165)
int_timestamp(ts) == ts \div 2

\* entry.get("MESSAGE", "<no message>") (line 168)
entry_get_MESSAGE(entry) == IF entry.MESSAGE # None THEN entry.MESSAGE[1] ELSE "<no message>"

\* A call of yield_journal_messages(start_time, end_time, unit, user) on a
\* journal of the unit.
InitJournal ==
    /\ pc = "seek"
    /\ error = ""
    /\ geo_ip = FALSE
    /\ nread = 0
    /\ msg = <<>>
    /\ event = None
    /\ conns = <<>>
    /\ open_connections = <<>>
    /\ closed_connections = <<>>
    /\ grouped_connections = <<>>
    /\ order = <<>>
    /\ gi = 0
    /\ stdout = <<>>
    /\ stderr = <<>>
    /\ history = <<>>
    /\ args = TodayArgs
    /\ time_range \in {Some(<<s, e>>) : s \in 0..MaxTime, e \in 0..MaxTime}
    /\ reader \in {[entries |-> journal, next |-> 1] : journal \in UnitJournals}
    /\ yielded = <<>>
    /\ hrs_arg = 0
    /\ rendered = None

\* lines 149-157: the Reader is positioned and one get_next() is made, whose
\* result is dropped.
Seek ==
    /\ pc = "seek"
    /\ reader' = get_next(seek_realtime(reader, time_range[1][1])).reader
    /\ pc' = "while"
    /\ UNCHANGED <<main_vars, error, stderr, args, time_range, yielded, hrs_arg, rendered>>

\* lines 159-168: one iteration of the while loop.
GetNext ==
    /\ pc = "while"
    /\ reader' = get_next(reader).reader
    /\ IF get_next(reader).entry = None
       THEN /\ pc' = "returned"
            /\ yielded' = yielded
       ELSE IF int_timestamp(get_next(reader).entry[1].ts) > time_range[1][2]
       THEN /\ pc' = "returned"
            /\ yielded' = yielded
       ELSE /\ pc' = "while"
            /\ yielded' = Append(yielded, entry_get_MESSAGE(get_next(reader).entry[1]))
    /\ UNCHANGED <<main_vars, error, stderr, args, time_range, hrs_arg, rendered>>

NextJournal ==
    \/ Seek
    \/ GetNext

SpecJournal == InitJournal /\ [][NextJournal]_vars

\* The entries of the journal whose timestamp lies between start_time and
\* end_time inclusive, in journal order.
Window ==
    LET InWindow(en) == 2 * time_range[1][1] <= en.ts /\ en.ts <= 2 * time_range[1][2]
    IN SelectSeq(reader.entries, InWindow)

\* C14. yield_journal_messages yields, in journal order, the message of
\* every entry whose timestamp lies between start_time and end_time
\* inclusive, the first entry at or after start_time included, and no entry
\* after end_time. (As stated; line 157 drops the first entry.)
C14_WholeWindowDelivered ==
    /\ Len(yielded) <= Len(Window)
    /\ \A i \in 1..Len(yielded) : yielded[i] = entry_get_MESSAGE(Window[i])
    /\ pc = "returned" => Len(yielded) = Len(Window)

====
